---- MODULE Spec2Model ----
(***************************************************************************)
(* A model of src/src/main.py (the Gilbert AI Slack bot): the message      *)
(* handler handle_message with the module-level conversation_history, and  *)
(* the prompt assembler get_ai_response with its keyword heuristics.       *)
(*                                                                         *)
(* Text is modelled as a sequence of one-character strings, so that        *)
(* str.lower(), the `in` substring test and str.split() are computed       *)
(* character by character as Python computes them.                         *)
(***************************************************************************)
EXTENDS Integers, Sequences, FiniteSets, TLC

(***************************************************************************)
(* Bounds of the model.                                                    *)
(***************************************************************************)
\* serial dispatches that reach the history update (SerialSpec)
MaxExchanges == 6
\* dispatches that reach the history update when handlers overlap (Spec)
MaxOverlapped == 3
\* handler threads of the Bolt listener pool that may run at once
NumWorkers == 2
\* words in a prompt handed to get_ai_response (SpecAI)
MaxPromptWords == 2
\* rows of the Clients sheet (SpecAI)
MaxRows == 2

(***************************************************************************)
(* Program constants.                                                      *)
(***************************************************************************)
\* main.py:806  if len(history) > 10
MAX_TURNS == 10

(***************************************************************************)
(* Text: str.lower(), `sub in s`, s.split(), " ".join(l).                  *)
(***************************************************************************)
LowerMap ==
    [A |-> "a", B |-> "b", C |-> "c", D |-> "d", E |-> "e", F |-> "f",
     G |-> "g", H |-> "h", I |-> "i", J |-> "j", K |-> "k", L |-> "l",
     M |-> "m", N |-> "n", O |-> "o", P |-> "p", Q |-> "q", R |-> "r",
     S |-> "s", T |-> "t", U |-> "u", V |-> "v", W |-> "w", X |-> "x",
     Y |-> "y", Z |-> "z"]

\* str.lower(): every cased character is replaced by its lower-case form
Lower(s) ==
    [i \in 1..Len(s) |-> IF s[i] \in DOMAIN LowerMap THEN LowerMap[s[i]] ELSE s[i]]

\* `sub in s` for two str values: sub occurs in s as a contiguous run
Contains(s, sub) ==
    \E i \in 0..(Len(s) - Len(sub)) : SubSeq(s, i + 1, i + Len(sub)) = sub

\* any(word in s for word in words)
ContainsAny(s, words) ==
    \E w \in words : Contains(s, w)

IsSpace(c) ==
    c = " "

\* s.split(): the maximal runs of non-whitespace characters, in order
RECURSIVE SplitFrom(_, _, _)
SplitFrom(s, i, cur) ==
    IF i > Len(s)
        THEN IF cur = <<>> THEN <<>> ELSE <<cur>>
        ELSE IF IsSpace(s[i])
                 THEN IF cur = <<>>
                          THEN SplitFrom(s, i + 1, <<>>)
                          ELSE <<cur>> \o SplitFrom(s, i + 1, <<>>)
                 ELSE SplitFrom(s, i + 1, Append(cur, s[i]))

Split(s) ==
    SplitFrom(s, 1, <<>>)

\* " ".join(parts)
RECURSIVE Join(_)
Join(parts) ==
    IF parts = <<>> THEN <<>>
    ELSE IF Len(parts) = 1 THEN parts[1]
    ELSE parts[1] \o <<" ">> \o Join(Tail(parts))

(***************************************************************************)
(* Optional values: None is the empty sequence, a value v is <<v>>.        *)
(***************************************************************************)
None == <<>>

Some(v) == <<v>>

(***************************************************************************)
(* The word lists of get_ai_response.                                      *)
(***************************************************************************)
\* main.py:461-465
DropboxWords ==
    {<<"f", "i", "l", "e">>,
     <<"d", "o", "c", "u", "m", "e", "n", "t">>,
     <<"l", "i", "n", "k">>,
     <<"f", "o", "l", "d", "e", "r">>,
     <<"l", "i", "s", "t">>,
     <<"s", "h", "o", "w">>,
     <<"d", "r", "o", "p", "b", "o", "x">>,
     <<"d", "i", "r", "e", "c", "t", "o", "r", "y">>,
     <<"f", "o", "l", "d", "e", "r", "s">>,
     <<"f", "i", "l", "e", "s">>,
     <<"d", "o", "c", "u", "m", "e", "n", "t", "s">>,
     <<"c", "o", "n", "t", "e", "n", "t", "s">>,
     <<"b", "r", "a", "n", "d">>,
     <<"a", "s", "s", "e", "t", "s">>,
     <<"l", "o", "g", "o">>,
     <<"i", "m", "a", "g", "e">>,
     <<"m", "a", "t", "e", "r", "i", "a", "l">>,
     <<"a", "c", "t", "i", "v", "i", "t", "y">>,
     <<"l", "a", "t", "e", "s", "t">>}

\* main.py:471
ListingWords ==
    {<<"l", "i", "s", "t">>,
     <<"s", "h", "o", "w">>,
     <<"f", "o", "l", "d", "e", "r", "s">>,
     <<"f", "o", "l", "d", "e", "r", " ", "n", "a", "m", "e", "s">>}

\* main.py:495
RecencyWords ==
    {<<"a", "c", "t", "i", "v", "i", "t", "y">>,
     <<"l", "a", "t", "e", "s", "t">>,
     <<"r", "e", "c", "e", "n", "t">>}

\* main.py:505
ContentsWords ==
    {<<"f", "o", "l", "d", "e", "r">>,
     <<"f", "i", "l", "e">>,
     <<"d", "o", "c", "u", "m", "e", "n", "t">>,
     <<"b", "r", "a", "n", "d">>,
     <<"a", "s", "s", "e", "t">>,
     <<"l", "o", "g", "o">>,
     <<"i", "m", "a", "g", "e">>,
     <<"m", "a", "t", "e", "r", "i", "a", "l">>}

\* main.py:561, 565
ClientWords ==
    {<<"c", "l", "i", "e", "n", "t">>,
     <<"c", "o", "m", "p", "a", "n", "y">>,
     <<"b", "u", "s", "i", "n", "e", "s", "s">>}

\* main.py:577, 581
ProjectWords ==
    {<<"p", "r", "o", "j", "e", "c", "t">>,
     <<"c", "a", "m", "p", "a", "i", "g", "n">>,
     <<"w", "o", "r", "k">>}

\* main.py:497  the fixed recency query
RecencyQuery ==
    <<"m", "o", "d", "i", "f", "i", "e", "d", ":", ">", "2", "0", "2", "4", "-", "0", "1", "-", "0", "1">>

\* main.py:778  the literal looked for in text.lower()
TestDropboxPhrase ==
    <<"t", "e", "s", "t", " ", "d", "r", "o", "p", "b", "o", "x">>

\* main.py:85  BOT_USER_ID = bot_info["user_id"], a fixed id for the run
BOT_USER_ID ==
    <<"B">>

(***************************************************************************)
(* read_from_sheet, get_client_info / get_project_status.                  *)
(* The outcome of the Sheets call is an input: api.kind is "ok" (with      *)
(* api.rows), "no_service", "http_error" or "other_error" (any exception   *)
(* of the request that is not an HttpError).                               *)
(***************************************************************************)
read_from_sheet(api) ==
    IF api.kind = "ok" THEN [raised |-> FALSE, value |-> Some(api.rows)]
    ELSE IF api.kind = "other_error" THEN [raised |-> TRUE, value |-> None]
    ELSE [raised |-> FALSE, value |-> None]

\* append_to_sheet (133-158): True when the append went through, False when
\* there is no spreadsheet id, no service or an HttpError; any other exception
\* of the request is not caught
append_to_sheet(api) ==
    IF api.kind = "ok" THEN [raised |-> FALSE, value |-> Some(TRUE)]
    ELSE IF api.kind = "other_error" THEN [raised |-> TRUE, value |-> None]
    ELSE [raised |-> FALSE, value |-> Some(FALSE)]

\* for row in data: if row[0].lower() == name.lower(): return {...}
RECURSIVE RowNamed(_, _, _)
RowNamed(data, name, i) ==
    IF i > Len(data) THEN None
    ELSE IF Lower(data[i][1]) = Lower(name) THEN Some([name |-> data[i][1]])
    ELSE RowNamed(data, name, i + 1)

\* get_client_info and get_project_status: every exception becomes None
get_client_info(client_name, api) ==
    LET data == read_from_sheet(api)
    IN  IF data.raised \/ data.value = None \/ data.value = Some(<<>>) THEN None
        ELSE RowNamed(data.value[1], client_name, 1)

(***************************************************************************)
(* The directory lookup of get_ai_response (clients 553-567, projects      *)
(* 569-583): the same code twice, with its own sheet and trigger words.    *)
(***************************************************************************)
\* faulty variant: the loop without its break keeps the last matching row
RECURSIVE FirstMatch_nobreak(_, _, _)
FirstMatch_nobreak(data, prompt, i) ==
    IF i > Len(data) THEN 0
    ELSE LET later == FirstMatch_nobreak(data, prompt, i + 1)
         IN  IF later # 0 THEN later
             ELSE IF Contains(Lower(prompt), Lower(data[i][1])) THEN i ELSE 0

\* for row in data: if row[0].lower() in prompt.lower(): ...; break
RECURSIVE FirstMatch(_, _, _)
FirstMatch(data, prompt, i) ==
    IF i > Len(data) THEN 0
    ELSE IF Contains(Lower(prompt), Lower(data[i][1])) THEN i
    ELSE FirstMatch(data, prompt, i + 1)

\* for i, word in enumerate(words): if word in triggers and i > 0: ...; break
RECURSIVE GuessUnknown(_, _, _)
GuessUnknown(words, triggers, i) ==
    IF i > Len(words) THEN None
    ELSE IF words[i] \in triggers /\ i > 1 THEN Some(words[i - 1])
    ELSE GuessUnknown(words, triggers, i + 1)

DirectoryLookup(prompt, data, info_api, triggers) ==
    IF data = None \/ data = Some(<<>>)
        THEN [selected |-> None, info |-> None, unknown |-> None]
        ELSE LET rows == data[1]
                 sel == FirstMatch(rows, prompt, 1)
                 info == IF sel = 0 THEN None
                         ELSE get_client_info(rows[sel][1], info_api)
                 unknown == IF info = None /\ ContainsAny(Lower(prompt), triggers)
                                THEN GuessUnknown(Split(Lower(prompt)), triggers, 1)
                                ELSE None
             IN  [selected |-> IF sel = 0 THEN None ELSE Some(rows[sel][1]),
                  info |-> info, unknown |-> unknown]

(***************************************************************************)
(* The file-search heuristic of get_ai_response (460-545).                 *)
(***************************************************************************)
\* faulty variant: only the word before a contents trigger token is collected
RECURSIVE SearchTerms_before_only(_, _)
SearchTerms_before_only(words, i) ==
    IF i > Len(words) THEN <<>>
    ELSE (IF words[i] \in ContentsWords /\ i > 1 THEN <<words[i - 1]>> ELSE <<>>)
         \o SearchTerms_before_only(words, i + 1)

\* the context words around every contents trigger token (501-509)
RECURSIVE SearchTerms(_, _)
SearchTerms(words, i) ==
    IF i > Len(words) THEN <<>>
    ELSE (IF words[i] \in ContentsWords
              THEN (IF i > 1 THEN <<words[i - 1]>> ELSE <<>>)
                   \o (IF i < Len(words) THEN <<words[i + 1]>> ELSE <<>>)
              ELSE <<>>)
         \o SearchTerms(words, i + 1)

\* faulty variant: the recency test of line 495 left out
BuildQuery_terms_only(prompt) ==
    LET search_terms == SearchTerms(Split(Lower(prompt)), 1)
    IN  IF search_terms # <<>> THEN Some(Join(search_terms)) ELSE None

\* search_query of lines 494-517
BuildQuery(prompt) ==
    IF ContainsAny(Lower(prompt), RecencyWords) THEN Some(RecencyQuery)
    ELSE LET search_terms == SearchTerms(Split(Lower(prompt)), 1)
         IN  IF search_terms # <<>> THEN Some(Join(search_terms)) ELSE None

\* key=lambda x: x["modified"] if x["modified"] else 0
SortKey(item) ==
    IF item.modified = None \/ item.modified = Some(0) THEN 0 ELSE item.modified[1]

\* list.sort(key=..., reverse=True): stable, equal keys keep their order
RECURSIVE InsertDesc(_, _)
InsertDesc(sorted, item) ==
    IF sorted = <<>> THEN <<item>>
    ELSE IF SortKey(Head(sorted)) >= SortKey(item)
             THEN <<Head(sorted)>> \o InsertDesc(Tail(sorted), item)
             ELSE <<item>> \o sorted

RECURSIVE SortDesc(_)
SortDesc(items) ==
    IF items = <<>> THEN <<>>
    ELSE InsertDesc(SortDesc(SubSeq(items, 1, Len(items) - 1)), items[Len(items)])

\* search_dropbox: dbx holds what the two Dropbox searches produced
search_dropbox(query, dbx) ==
    SortDesc(dbx.folder_results \o dbx.file_results)

\* one rendered line of lines 526-534
FormatItem(item) ==
    [folder |-> item.is_folder,
     name |-> item.name,
     link |-> IF item.is_folder /\ item.shared_link = None THEN "plain" ELSE "markdown",
     url |-> item.shared_link,
     modified |-> item.modified]

\* the storage branch: what it appends, and how it leaves
\*   exit = "continue" (falls through), "return" (line 492), "raise"
StorageBranch(prompt, env) ==
    IF ~ContainsAny(Lower(prompt), DropboxWords)
        THEN [exit |-> "continue", msgs |-> <<>>, query |-> None, searched |-> FALSE]
    ELSE IF ContainsAny(Lower(prompt), ListingWords)
        THEN [exit |-> "return",
              msgs |-> <<[role |-> "system",
                          kind |-> IF env.folders # <<>> THEN "folders" ELSE "no_folders",
                          body |-> env.folders]>>,
              query |-> None, searched |-> FALSE]
    ELSE LET search_query == BuildQuery(prompt)
         IN  IF search_query = None
                 THEN [exit |-> "continue", msgs |-> <<>>, query |-> None,
                       searched |-> FALSE]
                 ELSE LET dropbox_results == search_dropbox(search_query[1], env.dbx)
                      IN  IF dropbox_results = <<>>
                              THEN [exit |-> "continue",
                                    msgs |-> <<[role |-> "system", kind |-> "no_items",
                                                body |-> <<>>]>>,
                                    query |-> search_query, searched |-> TRUE]
                          \* datetime.fromtimestamp(None) raises TypeError
                          ELSE IF \E i \in 1..Len(dropbox_results) :
                                      dropbox_results[i].modified = None
                              THEN [exit |-> "raise", msgs |-> <<>>,
                                    query |-> search_query, searched |-> TRUE]
                              ELSE [exit |-> "continue",
                                    msgs |-> <<[role |-> "system", kind |-> "items",
                                                body |-> [i \in 1..Len(dropbox_results) |->
                                                    FormatItem(dropbox_results[i])]]>>,
                                    query |-> search_query, searched |-> TRUE]

(***************************************************************************)
(* get_ai_response (418-609).  env holds the outcome of every external     *)
(* call it makes:                                                          *)
(*   dropbox_test      status of test_dropbox_connection()                 *)
(*   folders           what list_dropbox_folders(limit=20) returns         *)
(*   dbx               what the Dropbox searches produce                   *)
(*   clients_api, client_info_api, projects_api, project_info_api          *)
(*                     the Sheets calls, in the order they are made        *)
(*   provider          "ok" or "error": the chat completion call           *)
(***************************************************************************)
InstructionsMsg ==
    [role |-> "system", kind |-> "instructions", body |-> <<>>]

\* messages so far when the storage branch is reached (421-458)
HeadMessages(context, env) ==
    <<InstructionsMsg>>
    \o (IF env.dropbox_test # "success"
            THEN <<[role |-> "system", kind |-> "dropbox_warning", body |-> <<>>]>>
            ELSE <<>>)
    \o (IF context # <<>>
            THEN <<[role |-> "system", kind |-> "context", body |-> context]>>
            ELSE <<>>)

\* lines 585-595: what the two lookups append
DirectoryMessages(cl, pr) ==
    (IF cl.info # None
         THEN <<[role |-> "system", kind |-> "client_info", body |-> cl.info]>>
         ELSE <<>>)
    \o (IF pr.info # None
            THEN <<[role |-> "system", kind |-> "project_info", body |-> pr.info]>>
            ELSE <<>>)
    \o (IF cl.unknown # None
            THEN <<[role |-> "system", kind |-> "unknown_client", body |-> cl.unknown]>>
            ELSE <<>>)
    \o (IF pr.unknown # None
            THEN <<[role |-> "system", kind |-> "unknown_project", body |-> pr.unknown]>>
            ELSE <<>>)

\* faulty variant: the directory block moved above the storage block
AssembleMessages_directory_first(head, storage, directory, prompt) ==
    head \o directory \o storage
    \o <<[role |-> "user", kind |-> "prompt", body |-> prompt]>>

\* the order in which the blocks of get_ai_response append to messages
AssembleMessages(head, storage, directory, prompt) ==
    head \o storage \o directory
    \o <<[role |-> "user", kind |-> "prompt", body |-> prompt]>>

\* the body of the try block: outcome is "reply" (606), "none" (the bare
\* return of 492) or "raise" (an exception reaches the except of 607)
AiTryBlock(prompt, context, env) ==
    LET st == StorageBranch(prompt, env)
        client_data == read_from_sheet(env.clients_api)
        project_data == read_from_sheet(env.projects_api)
        cl == DirectoryLookup(prompt, client_data.value, env.client_info_api, ClientWords)
        pr == DirectoryLookup(prompt, project_data.value, env.project_info_api,
                              ProjectWords)
        nolookup == [selected |-> None, info |-> None, unknown |-> None]
        head == HeadMessages(context, env)
    IN  IF st.exit = "return"
            THEN [outcome |-> "none", messages |-> head \o st.msgs, sent |-> None,
                  query |-> st.query, client |-> nolookup, project |-> nolookup]
        ELSE IF st.exit = "raise"
            THEN [outcome |-> "raise", messages |-> head, sent |-> None,
                  query |-> st.query, client |-> nolookup, project |-> nolookup]
        ELSE IF client_data.raised
            THEN [outcome |-> "raise", messages |-> head \o st.msgs, sent |-> None,
                  query |-> st.query, client |-> nolookup, project |-> nolookup]
        ELSE IF project_data.raised
            THEN [outcome |-> "raise", messages |-> head \o st.msgs, sent |-> None,
                  query |-> st.query, client |-> cl, project |-> nolookup]
        ELSE LET messages == AssembleMessages(head, st.msgs,
                                              DirectoryMessages(cl, pr), prompt)
             IN  [outcome |-> IF env.provider = "ok" THEN "reply" ELSE "raise",
                  messages |-> messages, sent |-> Some(messages),
                  query |-> st.query, client |-> cl, project |-> pr]

\* faulty variant: no try/except around the body
get_ai_response_unguarded(prompt, context, env) ==
    AiTryBlock(prompt, context, env)

\* the function as a whole: `except Exception` returns the apology string.
\* outcome: "reply" (the provider's text), "apology" (609), "none" (492)
get_ai_response(prompt, context, env) ==
    LET r == AiTryBlock(prompt, context, env)
    IN  IF r.outcome = "raise" THEN [r EXCEPT !.outcome = "apology"] ELSE r

(***************************************************************************)
(* handle_message (741-829) and the module-level conversation_history.     *)
(*                                                                         *)
(* Bolt runs each listener call on a thread of its pool, so several calls  *)
(* of handle_message may be in progress at once.  A Python list is an      *)
(* object: conversation_history.get(key, []) hands out the stored list     *)
(* itself, and history.append mutates it in place.  lists is the heap of   *)
(* list objects; conversation_history and each call's local `history`      *)
(* hold references into it.                                                *)
(***************************************************************************)
VARIABLES
    conversation_history, \* key -> reference of the stored list, NoRef if absent
    lists,                \* reference -> the list's turns
    pc,                   \* where each handler thread is
    ev,                   \* the event it is handling
    history,              \* its local `history` (a reference)
    response,             \* its local `response`: "reply", "apology" or ""
    posted,               \* the chat_postMessage calls it has made, in order
    raised,               \* whether an exception reached the handler's except
    calls,                \* completion-provider calls made for this event
    id,                   \* which exchange of its key this is (tags its two turns)
    nextId,               \* key -> exchanges appended so far under the key
    appended,             \* key -> every turn appended under the key, in order
    input,                \* SpecAI, SpecLookup: the arguments of the call
    output                \* SpecAI, SpecLookup: what the call returned

handlerVars ==
    <<conversation_history, lists, pc, ev, history, response, posted, raised,
      calls, id, nextId, appended>>

fnVars ==
    <<input, output>>

vars ==
    <<conversation_history, lists, pc, ev, history, response, posted, raised,
      calls, id, nextId, appended, input, output>>

Procs ==
    1..NumWorkers

Users ==
    {<<"U">>, BOT_USER_ID}

Channels ==
    {<<"C">>}

\* f"<@{BOT_USER_ID}>"
MentionToken ==
    <<"<", "@">> \o BOT_USER_ID \o <<">">>

T_plain ==
    <<"h", "i">>

T_mention ==
    MentionToken \o <<" ", "h", "i">>

T_test ==
    MentionToken \o <<" ", "T", "e", "s", "t", " ", "D", "r", "o", "p", "b", "o", "x">>

T_list ==
    MentionToken \o <<" ", "l", "i", "s", "t">>

Texts ==
    {T_plain, T_mention, T_test, T_list}

ThreadStamp ==
    "1700000000.000100"

EventStamp ==
    "1700000000.000200"

\* an inbound Slack message event
Events ==
    [user : Users, channel : Channels, text : Texts,
     thread_ts : {None, Some(ThreadStamp)}, ts : {Some(EventStamp)}]

\* the events drawn while handlers overlap: mentions by one user in one
\* channel, so that every overlapping handler works on the same key
OverlapEvents ==
    {e \in Events : /\ e.text \in {T_mention, T_test}
                    /\ e.user # BOT_USER_ID
                    /\ e.thread_ts = None}

NoEvent ==
    [user |-> <<>>, channel |-> <<>>, text |-> <<>>, thread_ts |-> None, ts |-> None]

\* history_key = f"{user_id}_{channel_id}"
history_key(event) ==
    event.user \o <<"_">> \o event.channel

Keys ==
    {history_key(e) : e \in Events}

NoRef ==
    0

ObjIds ==
    1..(Cardinality(Keys) + NumWorkers + 1)

\* the list objects something still refers to
Live(ch, hs) ==
    ({ch[k] : k \in Keys} \cup {hs[p] : p \in Procs}) \ {NoRef}

\* a list object nothing refers to is gone
Collect(ls, ch, hs) ==
    [o \in ObjIds |-> IF o \in Live(ch, hs) THEN ls[o] ELSE <<>>]

\* a new list object
Fresh(ch, hs) ==
    CHOOSE o \in ObjIds \ Live(ch, hs) : \A o2 \in ObjIds \ Live(ch, hs) : o <= o2

\* faulty variant: event.get("thread_ts") without the fallback to ts
thread_ts_no_fallback(event) ==
    event.thread_ts

\* thread_ts = event.get("thread_ts", event.get("ts"))
thread_ts(event) ==
    IF event.thread_ts # None THEN event.thread_ts ELSE event.ts

\* is_mention = f"<@{BOT_USER_ID}>" in text
is_mention(event) ==
    Contains(event.text, MentionToken)

\* is_thread_reply = event.get("thread_ts") is not None
is_thread_reply(event) ==
    event.thread_ts # None

\* faulty variant: history[-9:]
LastTurns_nine(h) ==
    IF Len(h) > MAX_TURNS THEN SubSeq(h, Len(h) - MAX_TURNS + 2, Len(h)) ELSE h

\* faulty variant: history[:10]
LastTurns_head(h) ==
    IF Len(h) > MAX_TURNS THEN SubSeq(h, 1, MAX_TURNS) ELSE h

\* history[-10:]
LastTurns(h) ==
    IF Len(h) > MAX_TURNS THEN SubSeq(h, Len(h) - MAX_TURNS + 1, Len(h)) ELSE h

\* the external outcomes get_ai_response may meet inside a dispatch
HandlerEnvs ==
    [dropbox_test : {"success", "error"},
     folders : {<<>>},
     dbx : {[folder_results |-> <<>>, file_results |-> <<>>]},
     clients_api : {[kind |-> "no_service", rows |-> <<>>],
                    [kind |-> "other_error", rows |-> <<>>]},
     client_info_api : {[kind |-> "no_service", rows |-> <<>>]},
     projects_api : {[kind |-> "no_service", rows |-> <<>>]},
     project_info_api : {[kind |-> "no_service", rows |-> <<>>]},
     provider : {"ok", "error"}]

Post(kind, event, ok) ==
    [kind |-> kind, channel |-> event.channel, thread_ts |-> thread_ts(event), ok |-> ok]

InitHandler ==
    /\ conversation_history = [k \in Keys |-> NoRef]
    /\ lists = [o \in ObjIds |-> <<>>]
    /\ pc = [p \in Procs |-> "idle"]
    /\ ev = [p \in Procs |-> NoEvent]
    /\ history = [p \in Procs |-> NoRef]
    /\ response = [p \in Procs |-> ""]
    /\ posted = [p \in Procs |-> <<>>]
    /\ raised = [p \in Procs |-> FALSE]
    /\ calls = [p \in Procs |-> 0]
    /\ id = [p \in Procs |-> 0]
    /\ nextId = [k \in Keys |-> 0]
    /\ appended = [k \in Keys |-> <<>>]

Init ==
    /\ InitHandler
    /\ input = None
    /\ output = None

\* exchanges appended so far, under all keys
RECURSIVE Total(_, _)
Total(f, ks) ==
    IF ks = {} THEN 0
    ELSE LET k == CHOOSE x \in ks : TRUE IN f[k] + Total(f, ks \ {k})

\* Bolt calls handle_message(event); bound caps the exchanges of a run
Receive(p, event, bound) ==
    /\ pc[p] = "idle"
    /\ Total(nextId, Keys)
           + Cardinality({q \in Procs : pc[q] \in
                             {"check", "users_info", "get_history", "respond"}}) < bound
    /\ ev' = [ev EXCEPT ![p] = event]
    /\ pc' = [pc EXCEPT ![p] = "check"]
    /\ UNCHANGED <<conversation_history, lists, history, response, posted, raised,
                   calls, id, nextId, appended, fnVars>>

\* 760-770: neither a mention nor a thread reply: return
CheckEligible(p) ==
    /\ pc[p] = "check"
    /\ pc' = [pc EXCEPT ![p] = IF is_mention(ev[p]) \/ is_thread_reply(ev[p])
                                   THEN "users_info" ELSE "done"]
    /\ UNCHANGED <<conversation_history, lists, ev, history, response, posted, raised,
                   calls, id, nextId, appended, fnVars>>

\* 772-778: app.client.users_info may raise; then the "test dropbox" test
UsersInfo(p) ==
    /\ pc[p] = "users_info"
    /\ \E ok \in BOOLEAN :
          /\ pc' = [pc EXCEPT ![p] =
                       IF ~ok THEN "except"
                       ELSE IF Contains(Lower(ev[p].text), TestDropboxPhrase)
                                THEN "test_dropbox" ELSE "get_history"]
          /\ raised' = [raised EXCEPT ![p] = ~ok]
    /\ UNCHANGED <<conversation_history, lists, ev, history, response, posted,
                   calls, id, nextId, appended, fnVars>>

\* 778-791: report the Dropbox connection and return
TestDropbox(p) ==
    /\ pc[p] = "test_dropbox"
    /\ \E ok \in BOOLEAN :
          /\ posted' = [posted EXCEPT ![p] = Append(@, Post("test", ev[p], ok))]
          /\ pc' = [pc EXCEPT ![p] = IF ok THEN "done" ELSE "except"]
          /\ raised' = [raised EXCEPT ![p] = ~ok]
    /\ UNCHANGED <<conversation_history, lists, ev, history, response,
                   calls, id, nextId, appended, fnVars>>

\* 794-795: history = conversation_history.get(history_key, [])
GetHistory(p) ==
    LET key == history_key(ev[p])
        ref == IF conversation_history[key] # NoRef
                   THEN conversation_history[key]
                   ELSE Fresh(conversation_history, history)
    IN  /\ pc[p] = "get_history"
        /\ history' = [history EXCEPT ![p] = ref]
        /\ lists' = [lists EXCEPT ![ref] = IF conversation_history[key] # NoRef
                                               THEN @ ELSE <<>>]
        /\ pc' = [pc EXCEPT ![p] = "respond"]
        /\ UNCHANGED <<conversation_history, ev, response, posted, raised, calls,
                       id, nextId, appended, fnVars>>

\* 798-801: response = get_ai_response(text, history); response[:100] raises
\* TypeError when get_ai_response returned None
Respond(p) ==
    /\ pc[p] = "respond"
    /\ \E env \in HandlerEnvs :
          LET r == get_ai_response(ev[p].text, lists[history[p]], env)
          IN  /\ calls' = [calls EXCEPT ![p] = @ + (IF r.sent # None THEN 1 ELSE 0)]
              /\ response' = [response EXCEPT ![p] =
                                 IF r.outcome \in {"reply", "apology"}
                                     THEN r.outcome ELSE ""]
              /\ raised' = [raised EXCEPT ![p] = r.outcome \notin {"reply", "apology"}]
              /\ pc' = [pc EXCEPT ![p] = IF r.outcome \in {"reply", "apology"}
                                             THEN "append_user" ELSE "except"]
    /\ UNCHANGED <<conversation_history, lists, ev, history, posted, id, nextId,
                   appended, fnVars>>

\* 804: history.append({"role": "user", "content": text})
AppendUser(p) ==
    LET key == history_key(ev[p])
        turn == [role |-> "user", content |-> nextId[key] + 1]
    IN  /\ pc[p] = "append_user"
        /\ id' = [id EXCEPT ![p] = nextId[key] + 1]
        /\ nextId' = [nextId EXCEPT ![key] = @ + 1]
        /\ lists' = [lists EXCEPT ![history[p]] = Append(@, turn)]
        /\ appended' = [appended EXCEPT ![key] = Append(@, turn)]
        /\ pc' = [pc EXCEPT ![p] = "append_assistant"]
        /\ UNCHANGED <<conversation_history, ev, history, response, posted, raised,
                       calls, fnVars>>

\* 805: history.append({"role": "assistant", "content": response})
AppendAssistant(p) ==
    LET turn == [role |-> "assistant", content |-> id[p]]
    IN  /\ pc[p] = "append_assistant"
        /\ lists' = [lists EXCEPT ![history[p]] = Append(@, turn)]
        /\ appended' = [appended EXCEPT ![history_key(ev[p])] = Append(@, turn)]
        /\ pc' = [pc EXCEPT ![p] = "truncate"]
        /\ UNCHANGED <<conversation_history, ev, history, response, posted, raised,
                       calls, id, nextId, fnVars>>

\* 806-807: if len(history) > 10: history = history[-10:]   (a new list)
Truncate(p) ==
    LET old == history[p]
        new == Fresh(conversation_history, history)
    IN  /\ pc[p] = "truncate"
        /\ IF Len(lists[old]) > MAX_TURNS
               THEN /\ history' = [history EXCEPT ![p] = new]
                    /\ lists' = Collect([lists EXCEPT ![new] = LastTurns(lists[old])],
                                        conversation_history, history')
               ELSE UNCHANGED <<history, lists>>
        /\ pc' = [pc EXCEPT ![p] = "store"]
        /\ UNCHANGED <<conversation_history, ev, response, posted, raised, calls, id,
                       nextId, appended, fnVars>>

\* 808: conversation_history[history_key] = history
Store(p) ==
    /\ pc[p] = "store"
    /\ conversation_history' =
           [conversation_history EXCEPT ![history_key(ev[p])] = history[p]]
    /\ lists' = Collect(lists, conversation_history', history)
    /\ pc' = [pc EXCEPT ![p] = "post"]
    /\ UNCHANGED <<ev, history, response, posted, raised, calls, id, nextId,
                   appended, fnVars>>

\* 811-818: post the reply; chat_postMessage may raise
PostReply(p) ==
    /\ pc[p] = "post"
    /\ \E ok \in BOOLEAN :
          /\ posted' = [posted EXCEPT ![p] = Append(@, Post("reply", ev[p], ok))]
          /\ pc' = [pc EXCEPT ![p] = IF ok THEN "done" ELSE "except"]
          /\ raised' = [raised EXCEPT ![p] = ~ok]
    /\ UNCHANGED <<conversation_history, lists, ev, history, response,
                   calls, id, nextId, appended, fnVars>>

\* faulty variant: the apology post outside any try: its failure leaves the handler
Except_unguarded(p) ==
    /\ pc[p] = "except"
    /\ \E ok \in BOOLEAN :
          /\ posted' = [posted EXCEPT ![p] = Append(@, Post("apology", ev[p], ok))]
          /\ pc' = [pc EXCEPT ![p] = IF ok THEN "done" ELSE "crashed"]
    /\ UNCHANGED <<conversation_history, lists, ev, history, response, raised,
                   calls, id, nextId, appended, fnVars>>

\* 820-829: except Exception: post the apology; its failure is logged only
Except(p) ==
    /\ pc[p] = "except"
    /\ \E ok \in BOOLEAN :
          posted' = [posted EXCEPT ![p] = Append(@, Post("apology", ev[p], ok))]
    /\ pc' = [pc EXCEPT ![p] = "done"]
    /\ UNCHANGED <<conversation_history, lists, ev, history, response, raised,
                   calls, id, nextId, appended, fnVars>>

\* handle_message returns: its locals are gone
Return(p) ==
    /\ pc[p] = "done"
    /\ pc' = [pc EXCEPT ![p] = "idle"]
    /\ ev' = [ev EXCEPT ![p] = NoEvent]
    /\ history' = [history EXCEPT ![p] = NoRef]
    /\ lists' = Collect(lists, conversation_history, history')
    /\ response' = [response EXCEPT ![p] = ""]
    /\ posted' = [posted EXCEPT ![p] = <<>>]
    /\ raised' = [raised EXCEPT ![p] = FALSE]
    /\ calls' = [calls EXCEPT ![p] = 0]
    /\ id' = [id EXCEPT ![p] = 0]
    /\ UNCHANGED <<conversation_history, nextId, appended, fnVars>>

\* one step of the handler thread p after it took its event
Step(p) ==
    \/ CheckEligible(p)
    \/ UsersInfo(p)
    \/ TestDropbox(p)
    \/ GetHistory(p)
    \/ Respond(p)
    \/ AppendUser(p)
    \/ AppendAssistant(p)
    \/ Truncate(p)
    \/ Store(p)
    \/ PostReply(p)
    \/ Except(p)
    \/ Return(p)

\* handlers overlap freely
Arrive ==
    \E p \in Procs, e \in OverlapEvents : Receive(p, e, MaxOverlapped)

Next ==
    \/ Arrive
    \/ \E p \in Procs : Step(p)

Spec ==
    Init /\ [][Next]_vars

\* one event at a time: the next is taken when no handler is running
SerialArrive ==
    /\ \A q \in Procs : pc[q] = "idle"
    /\ \E p \in Procs, e \in Events : Receive(p, e, MaxExchanges)

SerialNext ==
    \/ SerialArrive
    \/ \E p \in Procs : Step(p)

SerialSpec ==
    Init /\ [][SerialNext]_vars

(***************************************************************************)
(* get_ai_response as a function of its arguments and of the outcomes of   *)
(* its external calls: SpecAI draws them and calls it once.                *)
(***************************************************************************)
AiWords ==
    {<<"A", "c", "m", "e">>,
     <<"c", "l", "i", "e", "n", "t">>,
     <<"w", "o", "r", "k">>,
     <<"l", "a", "t", "e", "s", "t">>,
     <<"l", "o", "g", "o">>,
     <<"s", "h", "o", "w">>,
     <<"h", "i">>}

\* the texts of 1..n words of ws, joined by single spaces
RECURSIVE Phrases(_, _)
Phrases(ws, n) ==
    IF n = 0 THEN {}
    ELSE ws \cup Phrases(ws, n - 1)
         \cup {p \o <<" ">> \o w : p \in Phrases(ws, n - 1), w \in ws}

AiPrompts ==
    Phrases(AiWords, MaxPromptWords)

AcmeSheet ==
    <<<<<<"A", "c", "m", "e">>>>>>

SheetOutcomes ==
    {[kind |-> "ok", rows |-> AcmeSheet],
     [kind |-> "http_error", rows |-> <<>>],
     [kind |-> "other_error", rows |-> <<>>]}

AFile ==
    [name |-> <<"a">>, modified |-> Some(5), is_folder |-> FALSE,
     shared_link |-> Some("url")]

AFolder ==
    [name |-> <<"d">>, modified |-> None, is_folder |-> TRUE, shared_link |-> None]

AiEnvs ==
    [dropbox_test : {"success", "error"},
     folders : {<<>>, <<[name |-> <<"d">>, modified |-> 5, depth |-> 0]>>},
     dbx : {[folder_results |-> <<>>, file_results |-> <<>>],
            [folder_results |-> <<>>, file_results |-> <<AFile>>],
            [folder_results |-> <<AFolder>>, file_results |-> <<AFile>>]},
     clients_api : SheetOutcomes,
     client_info_api : {[kind |-> "ok", rows |-> AcmeSheet],
                        [kind |-> "http_error", rows |-> <<>>]},
     projects_api : SheetOutcomes,
     project_info_api : {[kind |-> "ok", rows |-> AcmeSheet]},
     provider : {"ok", "error"}]

AiContexts ==
    {<<>>, <<[role |-> "user", content |-> 1], [role |-> "assistant", content |-> 1]>>}

InitAI ==
    /\ InitHandler
    /\ input \in [prompt : AiPrompts, context : AiContexts, env : AiEnvs]
    /\ output = None

CallAI ==
    /\ output = None
    /\ output' = Some(get_ai_response(input.prompt, input.context, input.env))
    /\ UNCHANGED <<handlerVars, input>>

SpecAI ==
    InitAI /\ [][CallAI]_vars

(***************************************************************************)
(* The directory lookup alone: SpecLookup draws a prompt, the rows of the  *)
(* sheet and the trigger words, and runs it once.                          *)
(***************************************************************************)
LookupWords ==
    {<<"A", "C", "M", "E">>,
     <<"c", "o">>,
     <<"c", "l", "i", "e", "n", "t">>,
     <<"w", "o", "r", "k">>,
     <<"h", "i">>}

LookupNames ==
    {<<"A", "c", "m", "e">>, <<"C", "o">>, <<"Z", "e", "d">>}

\* the sheets of at most n rows, one name per row
RECURSIVE Sheets(_, _)
Sheets(names, n) ==
    IF n = 0 THEN {<<>>}
    ELSE Sheets(names, n - 1)
         \cup {Append(s, <<nm>>) : s \in Sheets(names, n - 1), nm \in names}

InitLookup ==
    /\ InitHandler
    /\ input \in [prompt : Phrases(LookupWords, MaxPromptWords),
                  rows : Sheets(LookupNames, MaxRows),
                  info_ok : BOOLEAN,
                  triggers : {ClientWords, ProjectWords}]
    /\ output = None

CallLookup ==
    /\ output = None
    /\ output' = Some(DirectoryLookup(
                          input.prompt, Some(input.rows),
                          IF input.info_ok THEN [kind |-> "ok", rows |-> input.rows]
                                           ELSE [kind |-> "http_error", rows |-> <<>>],
                          input.triggers))
    /\ UNCHANGED <<handlerVars, input>>

SpecLookup ==
    InitLookup /\ [][CallLookup]_vars

(***************************************************************************)
(* Properties of handle_message and conversation_history.                  *)
(***************************************************************************)
\* the sequence conversation_history holds for key k (empty if absent)
Stored(k) ==
    IF conversation_history[k] = NoRef THEN <<>> ELSE lists[conversation_history[k]]

NoneRunning ==
    \A p \in Procs : pc[p] \in {"idle", "done"}

Eligible(event) ==
    is_mention(event) \/ is_thread_reply(event)

\* the last min(Len(s), n) entries of s, in order
Suffix(s, n) ==
    LET m == IF Len(s) < n THEN Len(s) ELSE n
    IN  [i \in 1..m |-> s[Len(s) - m + i]]

\* C1: after any sequence of non-overlapping dispatches, conversation_history
\* holds under every key exactly the last min(n, 10) of the n turns appended
\* under that key so far, in the order they were appended.
C1_LastTurnsKept ==
    NoneRunning => \A k \in Keys : Stored(k) = Suffix(appended[k], 10)

\* C1 witness: more than 10 turns were appended under a key, the oldest dropped
C1_Witness ==
    /\ NoneRunning
    /\ \E k \in Keys : Len(appended[k]) > 10 /\ Len(Stored(k)) = 10
                       /\ Stored(k)[1] = appended[k][Len(appended[k]) - 9]

\* C2: in every reachable state, between the steps of a dispatch too, the
\* sequence held in conversation_history for any key has at most 10 turns.
C2_AtMostTen ==
    \A k \in Keys : Len(Stored(k)) <= 10

\* the two turns of exchange n
Exchange(n) ==
    <<[role |-> "user", content |-> n], [role |-> "assistant", content |-> n]>>

RECURSIVE Flatten(_)
Flatten(order) ==
    IF order = <<>> THEN <<>> ELSE Exchange(Head(order)) \o Flatten(Tail(order))

\* the orders in which the exchanges 1..n may be run one after the other
SerialOrders(n) ==
    {o \in [1..n -> 1..n] : \A i, j \in 1..n : i # j => o[i] # o[j]}

\* C3: once the overlapping dispatches on a key have ended, what
\* conversation_history holds for the key is what running them in some serial
\* order leaves: no exchange lost, every user turn followed by its own reply.
C3_Serializable ==
    NoneRunning =>
        \A k \in Keys : \E o \in SerialOrders(nextId[k]) :
            Stored(k) = Suffix(Flatten(o), 10)

\* handler thread p has posted to Slack or touched conversation_history
HasActed(p) ==
    \/ posted[p] # <<>>
    \/ pc[p] \in {"append_assistant", "truncate", "store", "post"}

\* C4: handle_message posts or changes conversation_history only for an event
\* that is not authored by the bot and that mentions the bot or is a thread
\* reply (every thread counted as one the bot tracks).
C4_OnlyForOthers ==
    \A p \in Procs :
        HasActed(p) => ev[p].user # BOT_USER_ID /\ Eligible(ev[p])

\* the apology posts handler thread p has attempted
ApologyPosts(p) ==
    {i \in 1..Len(posted[p]) : posted[p][i].kind = "apology"}

\* C8: no exception leaves handle_message; a dispatch in which a step raised
\* ends after exactly one apology post (whether or not that post succeeds), a
\* dispatch in which none raised attempts no apology post, and the completion
\* provider is called at most once per dispatch.
C8_ErrorsCaught ==
    \A p \in Procs :
        /\ pc[p] # "crashed"
        /\ calls[p] <= 1
        /\ Cardinality(ApologyPosts(p)) <= 1
        /\ pc[p] = "done" =>
               /\ raised[p] => ApologyPosts(p) = {Len(posted[p])}
               /\ ~raised[p] => ApologyPosts(p) = {}

\* C8 witness: the reply was generated, posting it failed, and the apology
\* post failed too; the dispatch has ended
C8_Witness ==
    \E p \in Procs :
        /\ pc[p] = "done" /\ raised[p] /\ calls[p] = 1
        /\ Len(posted[p]) = 2
        /\ posted[p][1].kind = "reply" /\ ~posted[p][1].ok
        /\ posted[p][2].kind = "apology" /\ ~posted[p][2].ok

\* C9 as stated: the reply is posted with a thread timestamp if and only if
\* the triggering event carried one.
C9_ThreadedIffEventThreaded ==
    \A p \in Procs : \A i \in 1..Len(posted[p]) :
        posted[p][i].kind = "reply" =>
            ((posted[p][i].thread_ts # None) <=> (ev[p].thread_ts # None))

\* C9 amended: every post of a dispatch carries a thread timestamp: the
\* event's thread_ts when it has one, the event's own ts otherwise.
C9_AlwaysThreaded ==
    \A p \in Procs : \A i \in 1..Len(posted[p]) :
        /\ posted[p][i].thread_ts # None
        /\ ev[p].thread_ts # None => posted[p][i].thread_ts = ev[p].thread_ts
        /\ ev[p].thread_ts = None => posted[p][i].thread_ts = ev[p].ts

\* C9 witness: the reply to an event without thread_ts went out under its ts
C9_Witness ==
    \E p \in Procs : \E i \in 1..Len(posted[p]) :
        /\ posted[p][i].kind = "reply" /\ posted[p][i].ok
        /\ ev[p].thread_ts = None
        /\ posted[p][i].thread_ts = Some(EventStamp)

(***************************************************************************)
(* Properties of get_ai_response.                                          *)
(***************************************************************************)
Returned ==
    output # None

Result ==
    output[1]

\* C5: whatever the prompt, get_ai_response returns text: the provider's
\* reply, which it got by sending the assembled messages, or the apology.
C5_ReturnsText ==
    Returned =>
        /\ Result.outcome \in {"reply", "apology"}
        /\ Result.outcome = "reply" =>
               Result.sent # None /\ input.env.provider = "ok"

\* an external call of get_ai_response failed
SomeCallFailed(env) ==
    \/ env.provider = "error"
    \/ env.dropbox_test = "error"
    \/ env.clients_api.kind # "ok"
    \/ env.projects_api.kind # "ok"

IsDirectoryMsg(m) ==
    m.kind \in {"client_info", "project_info", "unknown_client", "unknown_project"}

IsFileSearchMsg(m) ==
    m.kind \in {"items", "no_items"}

\* C7 as stated: system instructions first, the prompt last, and every
\* directory message before every file-search message.
C7_DirectoryBeforeFiles ==
    Returned /\ Result.sent # None =>
        LET sent == Result.sent[1]
        IN  /\ sent[1].kind = "instructions"
            /\ sent[Len(sent)].kind = "prompt"
            /\ \A i, j \in 1..Len(sent) :
                   IsDirectoryMsg(sent[i]) /\ IsFileSearchMsg(sent[j]) => i < j

\* the place of each kind of message in the list sent to the provider
Rank(m) ==
    CASE m.kind = "instructions" -> 0
      [] m.kind = "dropbox_warning" -> 1
      [] m.kind = "context" -> 2
      [] m.kind \in {"items", "no_items"} -> 3
      [] m.kind = "client_info" -> 4
      [] m.kind = "project_info" -> 5
      [] m.kind = "unknown_client" -> 6
      [] m.kind = "unknown_project" -> 7
      [] m.kind = "prompt" -> 8
      [] OTHER -> 9

\* C7 amended: the list sent to the provider is, in this order: the system
\* instructions, the Dropbox warning if any, the context if any, the
\* file-search result if any, client and project information, the
\* unknown-client and unknown-project notices, and last the prompt verbatim.
C7_AssemblyOrder ==
    Returned /\ Result.sent # None =>
        LET sent == Result.sent[1]
        IN  /\ sent[1].kind = "instructions"
            /\ sent[Len(sent)].kind = "prompt"
            /\ sent[Len(sent)].role = "user"
            /\ sent[Len(sent)].body = input.prompt
            /\ \A i \in 1..Len(sent) :
                   /\ Rank(sent[i]) <= 8
                   /\ i < Len(sent) => sent[i].role = "system"
            /\ \A i, j \in 1..Len(sent) : i < j => Rank(sent[i]) < Rank(sent[j])

\* C7 witness: a list sent with the context, a file-search result and a
\* directory message in it
C7_Witness ==
    /\ Returned /\ Result.sent # None
    /\ \E i, j, k \in 1..Len(Result.sent[1]) :
           /\ Result.sent[1][i].kind = "context"
           /\ Result.sent[1][j].kind = "items"
           /\ Result.sent[1][k].kind = "client_info"

(***************************************************************************)
(* Properties of the directory lookup.                                     *)
(***************************************************************************)
\* name, lower-cased, occurs in the lower-cased prompt
OccursIn(name, prompt) ==
    \E i \in 0..(Len(prompt) - Len(name)) :
        \A j \in 1..Len(name) : Lower(prompt)[i + j] = Lower(name)[j]

\* C10: the lookup selects the first row, in the sheet's order, whose name
\* occurs case-insensitively in the prompt (none if no row does); every name
\* it returns, known or guessed, occurs case-insensitively in the prompt.
C10_FirstMatchInOrder ==
    Returned =>
        LET rows == input.rows
            matching == {i \in 1..Len(rows) : OccursIn(rows[i][1], input.prompt)}
        IN  /\ matching = {} => Result.selected = None
            /\ matching # {} =>
                   \E i \in matching :
                       /\ \A j \in matching : i <= j
                       /\ Result.selected = Some(rows[i][1])
            /\ Result.info # None => OccursIn(Result.info[1].name, input.prompt)
            /\ Result.unknown # None => OccursIn(Result.unknown[1], input.prompt)

\* C10 witness: two different rows occur in the prompt, the one selected is
\* the first of the sheet although the other comes first in the prompt
C10_Witness ==
    /\ Returned
    /\ Len(input.rows) = 2
    /\ input.rows[1] = <<<<"C", "o">>>>
    /\ input.rows[2] = <<<<"A", "c", "m", "e">>>>
    /\ input.prompt = <<"A", "C", "M", "E", " ", "c", "o">>
    /\ Result.selected = Some(<<"C", "o">>)
    /\ Result.info # None

\* the position of the first token of words that is a trigger word, 0 if none
RECURSIVE FirstTrigger(_, _, _)
FirstTrigger(words, triggers, i) ==
    IF i > Len(words) THEN 0
    ELSE IF words[i] \in triggers THEN i
    ELSE FirstTrigger(words, triggers, i + 1)

\* C11: when no known name occurs in the prompt and the prompt has a trigger
\* word, the guess is the token just before the first trigger word, whatever
\* the list of known names (an empty one included); when the first trigger
\* word is the first token there is no guess, later trigger words or not.
C11_GuessBeforeFirstTrigger ==
    Returned =>
        LET words == Split(Lower(input.prompt))
            first == FirstTrigger(words, input.triggers, 1)
            matching == {i \in 1..Len(input.rows) :
                            OccursIn(input.rows[i][1], input.prompt)}
        IN  matching = {} /\ first # 0 =>
                Result.unknown = IF first = 1 THEN None ELSE Some(words[first - 1])

\* C11, the known names being an empty list: the guess is still expected
C11_EmptySheetCase ==
    /\ Returned
    /\ input.rows = <<>>
    /\ FirstTrigger(Split(Lower(input.prompt)), input.triggers, 1) > 1
    /\ Result.unknown = None

\* C11, the first trigger word being the first token and another following
C11_LaterTriggerCase ==
    /\ Returned
    /\ input.rows # <<>>
    /\ FirstTrigger(Split(Lower(input.prompt)), input.triggers, 1) = 1
    /\ Result.unknown # None

(***************************************************************************)
(* The storage branch alone (460-545): SpecQuery draws a prompt and what   *)
(* Dropbox holds, and runs the branch once.                                *)
(***************************************************************************)
\* words in a prompt handed to the storage branch (SpecQuery)
MaxQueryWords == 3

QueryWords ==
    {<<"s", "h", "o", "w">>,
     <<"t", "h", "e">>,
     <<"L", "o", "g", "o">>,
     <<"f", "i", "l", "e", "s">>,
     <<"r", "e", "c", "e", "n", "t">>,
     <<"l", "a", "t", "e", "s", "t">>}

\* "<@B> show me the logo files"
ShowLogoPrompt ==
    MentionToken \o <<" ", "s", "h", "o", "w", " ", "m", "e", " ", "t", "h", "e", " ",
                      "l", "o", "g", "o", " ", "f", "i", "l", "e", "s">>

\* "<@B> find me the logo files"
FindLogoPrompt ==
    MentionToken \o <<" ", "f", "i", "n", "d", " ", "m", "e", " ", "t", "h", "e", " ",
                      "l", "o", "g", "o", " ", "f", "i", "l", "e", "s">>

QueryPrompts ==
    Phrases(QueryWords, MaxQueryWords) \cup {ShowLogoPrompt, FindLogoPrompt}

QueryEnvs ==
    [dropbox_test : {"success"},
     folders : {<<>>},
     dbx : {[folder_results |-> <<>>, file_results |-> <<>>],
            [folder_results |-> <<>>, file_results |-> <<AFile>>]},
     clients_api : {[kind |-> "no_service", rows |-> <<>>]},
     client_info_api : {[kind |-> "no_service", rows |-> <<>>]},
     projects_api : {[kind |-> "no_service", rows |-> <<>>]},
     project_info_api : {[kind |-> "no_service", rows |-> <<>>]},
     provider : {"ok"}]

InitQuery ==
    /\ InitHandler
    /\ input \in [prompt : QueryPrompts, env : QueryEnvs]
    /\ output = None

CallQuery ==
    /\ output = None
    /\ output' = Some(StorageBranch(input.prompt, input.env))
    /\ UNCHANGED <<handlerVars, input>>

SpecQuery ==
    InitQuery /\ [][CallQuery]_vars

(***************************************************************************)
(* Properties of the file-search heuristic.                                *)
(***************************************************************************)
StorageRelated(prompt) ==
    \E w \in DropboxWords : OccursIn(w, prompt)

HasListingWord(prompt) ==
    \E w \in ListingWords : OccursIn(w, prompt)

HasRecencyWord(prompt) ==
    \E w \in RecencyWords : OccursIn(w, prompt)

\* the positions of the tokens of words that are contents trigger words
TriggerTokens(words) ==
    {i \in 1..Len(words) : words[i] \in ContentsWords}

\* C12 as stated: a prompt with "latest", "recent" or "activity" gets the
\* fixed recency query; a prompt with none of them and no contents trigger
\* token gets no query and no search.
C12_RecencyQueryForEveryPrompt ==
    Returned =>
        /\ HasRecencyWord(input.prompt) => Result.query = Some(RecencyQuery)
        /\ ~HasRecencyWord(input.prompt)
               /\ TriggerTokens(Split(Lower(input.prompt))) = {}
               => Result.query = None /\ ~Result.searched

\* C12 amended: a storage-related prompt without listing word that has
\* "latest", "recent" or "activity" gets the fixed recency query and the
\* search is run with it; a prompt that is not storage-related, or has a
\* listing word, or has neither a recency word nor a contents trigger token,
\* gets no query and no search.
C12_RecencyQueryWhenReached ==
    Returned =>
        /\ StorageRelated(input.prompt) /\ ~HasListingWord(input.prompt)
               /\ HasRecencyWord(input.prompt)
               => Result.query = Some(RecencyQuery) /\ Result.searched
        /\ ~StorageRelated(input.prompt) \/ HasListingWord(input.prompt)
               => Result.query = None /\ ~Result.searched
        /\ ~HasRecencyWord(input.prompt)
               /\ TriggerTokens(Split(Lower(input.prompt))) = {}
               => Result.query = None /\ ~Result.searched

\* C12 witness: a prompt with a recency word and a contents trigger token,
\* searched with the recency query
C12_Witness ==
    /\ Returned
    /\ input.prompt = <<"l", "a", "t", "e", "s", "t", " ", "L", "o", "g", "o">>
    /\ Result.query = Some(RecencyQuery)
    /\ Result.searched

\* the neighbours of the contents trigger tokens: <<i, -1>> is the token
\* before token i, <<i, 1>> the token after it
NeighbourSlots(words) ==
    {s \in TriggerTokens(words) \X {-1, 1} : s[1] + s[2] \in 1..Len(words)}

SlotBefore(s, t) ==
    s[1] < t[1] \/ (s[1] = t[1] /\ s[2] < t[2])

\* the neighbours in token order: per trigger token, the one before it and
\* then the one after it
NeighbourTerms(words) ==
    [k \in 1..Cardinality(NeighbourSlots(words)) |->
        LET s == CHOOSE s \in NeighbourSlots(words) :
                     Cardinality({t \in NeighbourSlots(words) : SlotBefore(t, s)}) = k - 1
        IN  words[s[1] + s[2]]]

\* the query the neighbours make: none if there is no neighbour
NeighbourQuery(prompt) ==
    LET terms == NeighbourTerms(Split(Lower(prompt)))
    IN  IF terms = <<>> THEN None ELSE Some(Join(terms))

\* C13 as stated: for a storage-related prompt without recency word the query
\* is the join of the neighbours of the contents trigger tokens; the prompt
\* "<@B> show me the logo files" gives the query "me files".
C13_QueryFromNeighbours ==
    Returned /\ StorageRelated(input.prompt) /\ ~HasRecencyWord(input.prompt) =>
        /\ Result.query = NeighbourQuery(input.prompt)
        /\ input.prompt = ShowLogoPrompt =>
               Result.query = Some(<<"m", "e", " ", "f", "i", "l", "e", "s">>)

\* C13 amended: for a storage-related prompt with neither recency nor listing
\* word, the query is the join of the neighbours of the contents trigger
\* tokens of the lower-cased prompt, and the search is run exactly when there
\* is a neighbour; "<@B> show me the logo files" has a listing word and gets
\* no query, "<@B> find me the logo files" gets the query "the files".
C13_QueryFromNeighboursNoListing ==
    Returned =>
        /\ StorageRelated(input.prompt) /\ ~HasRecencyWord(input.prompt)
               /\ ~HasListingWord(input.prompt)
               => /\ Result.query = NeighbourQuery(input.prompt)
                  /\ Result.searched <=> Result.query # None
        /\ input.prompt = ShowLogoPrompt => Result.query = None /\ ~Result.searched
        /\ input.prompt = FindLogoPrompt =>
               Result.query = Some(<<"t", "h", "e", " ", "f", "i", "l", "e", "s">>)

\* C13 witness: a trigger token between two words, searched with both
C13_Witness ==
    /\ Returned
    /\ input.prompt = <<"t", "h", "e", " ", "L", "o", "g", "o", " ",
                        "f", "i", "l", "e", "s">>
    /\ Result.query = Some(<<"t", "h", "e", " ", "f", "i", "l", "e", "s">>)
    /\ Result.searched

(***************************************************************************)
(* The formatting of search results (519-545): SpecFormat draws what the   *)
(* folder search and the file search of search_dropbox produced, and runs  *)
(* the storage branch once on a prompt that leads to a search.             *)
(***************************************************************************)
\* entries a search of search_dropbox produces (SpecFormat)
MaxItems == 2

\* 286-292: modified is getattr(metadata, 'server_modified', None), and
\* shared_link is None when the link could not be created
FolderEntries ==
    [name : {<<"d">>}, modified : {None, Some(3)}, is_folder : {TRUE},
     shared_link : {None, Some("url")}]

\* 326-332: modified is a timestamp, shared_link is what
\* get_dropbox_shared_link returned (None on failure)
FileEntries ==
    [name : {<<"a">>}, modified : {Some(1), Some(5)}, is_folder : {FALSE},
     shared_link : {None, Some("url")}]

\* the lists of at most n entries of es
RECURSIVE Lists(_, _)
Lists(es, n) ==
    IF n = 0 THEN {<<>>}
    ELSE Lists(es, n - 1) \cup {Append(l, e) : l \in Lists(es, n - 1), e \in es}

\* "logo files"
FormatPrompt ==
    <<"l", "o", "g", "o", " ", "f", "i", "l", "e", "s">>

FormatEnv(dbx) ==
    [dropbox_test |-> "success",
     folders |-> <<>>,
     dbx |-> dbx,
     clients_api |-> [kind |-> "no_service", rows |-> <<>>],
     client_info_api |-> [kind |-> "no_service", rows |-> <<>>],
     projects_api |-> [kind |-> "no_service", rows |-> <<>>],
     project_info_api |-> [kind |-> "no_service", rows |-> <<>>],
     provider |-> "ok"]

InitFormat ==
    /\ InitHandler
    /\ input \in [folder_results : Lists(FolderEntries, MaxItems),
                  file_results : Lists(FileEntries, MaxItems)]
    /\ output = None

CallFormat ==
    /\ output = None
    /\ output' = Some(StorageBranch(FormatPrompt, FormatEnv(input)))
    /\ UNCHANGED <<handlerVars, input>>

SpecFormat ==
    InitFormat /\ [][CallFormat]_vars

(***************************************************************************)
(* Properties of the formatted search results.                             *)
(***************************************************************************)
\* the entries the search found
Found ==
    input.folder_results \o input.file_results

\* the rendered lines, none if no result message was made
Lines ==
    IF Result.exit = "continue" /\ Result.msgs # <<>> /\ Result.msgs[1].kind = "items"
        THEN Result.msgs[1].body
        ELSE <<>>

\* C14: the entries a search found are all rendered, in non-increasing order
\* of modified timestamp, the entries without timestamp after all those that
\* have one.
C14_SortedUndatedLast ==
    Returned =>
        /\ Len(Lines) = Len(Found)
        /\ \A i, j \in 1..Len(Lines) :
               /\ i < j /\ Lines[i].modified # None /\ Lines[j].modified # None
                      => Lines[i].modified[1] >= Lines[j].modified[1]
               /\ Lines[i].modified = None /\ Lines[j].modified # None => j < i

\* C14, an entry without timestamp among those found: nothing is rendered,
\* the formatting raised
C14_UndatedRaises ==
    /\ Returned
    /\ \E i \in 1..Len(Found) : Found[i].modified = None
    /\ \E i \in 1..Len(Found) : Found[i].modified # None
    /\ Result.exit = "raise"
    /\ Lines = <<>>

\* C17: a rendered line is a markdown link exactly when its entry has a
\* shared link; an entry without one, file or folder, is rendered as the
\* plain name with its date.
C17_LinkOnlyWhenResolved ==
    Returned =>
        \A i \in 1..Len(Lines) :
            /\ Lines[i].link = "markdown" <=> Lines[i].url # None
            /\ Lines[i].url = None => Lines[i].link = "plain"

\* C17, a file whose shared link could not be resolved: rendered as a
\* markdown link to nothing
C17_FileWithoutLink ==
    /\ Returned
    /\ \E i \in 1..Len(Lines) :
           /\ ~Lines[i].folder
           /\ Lines[i].url = None
           /\ Lines[i].link = "markdown"

(***************************************************************************)
(* The two sheet functions alone: SpecSheet draws which one is called,     *)
(* the rows read or appended and how the Sheets request ends, and calls    *)
(* it once.                                                                *)
(***************************************************************************)
\* how a call of the Sheets API may end: "no_spreadsheet_id" (135, 162),
\* "no_service" (141, 168), "http_error" (an HttpError of the request),
\* "other_error" (any other exception of the request: network, timeout, ...)
SheetKinds ==
    {"ok", "no_spreadsheet_id", "no_service", "http_error", "other_error"}

InitSheet ==
    /\ InitHandler
    /\ input \in [fn : {"read_from_sheet", "append_to_sheet"},
                  api : [kind : SheetKinds, rows : Sheets(LookupNames, MaxRows)]]
    /\ output = None

CallSheet ==
    /\ output = None
    /\ output' = Some(IF input.fn = "read_from_sheet"
                          THEN read_from_sheet(input.api)
                          ELSE append_to_sheet(input.api))
    /\ UNCHANGED <<handlerVars, input>>

SpecSheet ==
    InitSheet /\ [][CallSheet]_vars

(***************************************************************************)
(* Properties of the sheet functions.                                      *)
(***************************************************************************)
\* C15: whenever the spreadsheet call fails, for whatever reason,
\* read_from_sheet returns None and append_to_sheet returns False; no
\* exception reaches the caller of either.
C15_SheetFailuresAbsorbed ==
    Returned =>
        /\ ~Result.raised
        /\ input.api.kind # "ok" =>
               Result.value = IF input.fn = "read_from_sheet" THEN None ELSE Some(FALSE)

\* C15, the request ending in an exception that is not an HttpError: it
\* reaches the caller
C15_OtherErrorEscapes ==
    /\ Returned
    /\ input.api.kind = "other_error"
    /\ Result.raised

(***************************************************************************)
(* Further properties of handle_message and conversation_history.          *)
(***************************************************************************)
\* conversation_history holds the assistant turn of the exchange handler
\* thread p is working on
HoldsReplyOf(p) ==
    /\ id[p] # 0
    /\ \E i \in 1..Len(Stored(history_key(ev[p]))) :
           Stored(history_key(ev[p]))[i] = [role |-> "assistant", content |-> id[p]]

\* handler thread p has posted its reply to Slack with success
ReplyDelivered(p) ==
    \E i \in 1..Len(posted[p]) : posted[p][i].kind = "reply" /\ posted[p][i].ok

\* C16: the reply is posted before the exchange is appended: in every state
\* conversation_history holds the assistant turn of a dispatch only if its
\* reply was posted to Slack with success, so a dispatch whose reply post
\* fails leaves conversation_history without its exchange.
C16_PostedBeforeAppended ==
    \A p \in Procs : HoldsReplyOf(p) => ReplyDelivered(p)

\* C16, the dispatch has ended, its reply post failed, and
\* conversation_history holds its exchange
C16_FailedPostKeepsTurn ==
    \E p \in Procs :
        /\ pc[p] = "done"
        /\ posted[p] # <<>> /\ posted[p][1].kind = "reply" /\ ~posted[p][1].ok
        /\ HoldsReplyOf(p)

\* s is made of whole exchanges: a user turn, then the reply made for it
WholeExchanges(s) ==
    /\ Len(s) % 2 = 0
    /\ \A i \in 1..Len(s) :
           IF i % 2 = 1
               THEN s[i].role = "user"
               ELSE /\ s[i].role = "assistant"
                    /\ s[i].content = s[i - 1].content

\* C18: after any sequence of non-overlapping dispatches (answered, ignored,
\* "test dropbox" or failing), every sequence in conversation_history has
\* even length and alternates user, assistant, ..., each assistant turn being
\* the reply made for the user turn just before it; the cut to the last 10
\* turns never splits an exchange.
C18_WholeExchangesKept ==
    NoneRunning => \A k \in Keys : WholeExchanges(Stored(k))

\* C18 witness: the oldest exchange of a key was cut off as a whole, and the
\* last dispatch on the key ended with a failed reply post
C18_Witness ==
    /\ NoneRunning
    /\ \E p \in Procs :
           /\ pc[p] = "done" /\ raised[p]
           /\ Len(appended[history_key(ev[p])]) > 10
           /\ Len(Stored(history_key(ev[p]))) = 10
           /\ Stored(history_key(ev[p]))[1] = [role |-> "user", content |-> 2]
           /\ HoldsReplyOf(p)

(***************************************************************************)
(* list_dropbox_folders (344-382).                                         *)
(*                                                                         *)
(* The folders of Dropbox are an ordered forest below the root "", given   *)
(* by the depths of its folders in pre-order: folder i is at depth         *)
(* tree[i], the root is folder 0.  A listing of a folder is its child      *)
(* folders in order (after one file entry, if the folders hold files),     *)
(* delivered in pages of page_size entries; the listing of a folder in     *)
(* failing raises.                                                         *)
(***************************************************************************)
\* folders in Dropbox (SpecFolders)
MaxFolders == 4
\* the limit argument (SpecFolders)
MaxLimit == 3
\* the depth and max_depth arguments (SpecFolders)
MaxDepthArg == 2

PageSizes ==
    {1, 2}

\* the forests of at most n folders
RECURSIVE Forests(_)
Forests(n) ==
    IF n = 0 THEN {<<>>}
    ELSE Forests(n - 1)
         \cup {Append(t, d) : t \in {<<>>}, d \in {0}}
         \cup UNION {{Append(t, d) : d \in 0..(t[Len(t)] + 1)} :
                        t \in {u \in Forests(n - 1) : u # <<>>}}

\* the depth of folder a in the forest, the root above all
DepthIn(tree, a) ==
    IF a = 0 THEN -1 ELSE tree[a]

\* folder b lies in the subtree of folder a
Below(tree, a, b) ==
    /\ a < b /\ b <= Len(tree)
    /\ \A k \in (a + 1)..b : tree[k] > DepthIn(tree, a)

\* the child folders of a, in order
RECURSIVE ChildrenFrom(_, _, _)
ChildrenFrom(tree, a, b) ==
    IF b > Len(tree) \/ tree[b] <= DepthIn(tree, a) THEN <<>>
    ELSE (IF tree[b] = DepthIn(tree, a) + 1
              THEN <<[tag |-> "folder", node |-> b]>> ELSE <<>>)
         \o ChildrenFrom(tree, a, b + 1)

\* what dbx.files_list_folder(path) and its continuations deliver in all
Listing(dbx, path) ==
    (IF dbx.files THEN <<[tag |-> "file", node |-> 0]>> ELSE <<>>)
    \o ChildrenFrom(dbx.tree, path, path + 1)

\* the pages of a listing: the last one has has_more = False
RECURSIVE Pages(_, _)
Pages(entries, size) ==
    IF Len(entries) <= size THEN <<entries>>
    ELSE <<SubSeq(entries, 1, size)>> \o Pages(SubSeq(entries, size + 1, Len(entries)), size)

\* faulty variant: the recursive call is given the whole limit
SubLimit_whole(limit, folders) ==
    limit

\* 365: limit=limit - len(folders)
SubLimit(limit, folders) ==
    limit - Len(folders)

RECURSIVE list_dropbox_folders(_, _, _, _, _)
RECURSIVE ListPages(_, _, _, _, _, _, _)
RECURSIVE ListEntries(_, _, _, _, _, _, _)

\* 351-372: for entry in result.entries
ListEntries(dbx, entries, j, folders, limit, depth, max_depth) ==
    IF j > Len(entries) THEN folders
    ELSE IF entries[j].tag # "folder"
        THEN ListEntries(dbx, entries, j + 1, folders, limit, depth, max_depth)
    ELSE LET folder_info == [name |-> entries[j].node, depth |-> depth]
             appended1 == Append(folders, folder_info)
             extended == IF depth < max_depth
                             THEN appended1 \o list_dropbox_folders(
                                      dbx, entries[j].node,
                                      SubLimit(limit, appended1), depth + 1, max_depth)
                             ELSE appended1
         IN  IF Len(extended) >= limit THEN extended
             ELSE ListEntries(dbx, entries, j + 1, extended, limit, depth, max_depth)

\* 350, 374-377: while result.entries and len(folders) < limit
ListPages(dbx, pages, k, folders, limit, depth, max_depth) ==
    IF pages[k] = <<>> \/ Len(folders) >= limit THEN folders
    ELSE LET after == ListEntries(dbx, pages[k], 1, folders, limit, depth, max_depth)
         IN  IF k < Len(pages) /\ Len(after) < limit
                 THEN ListPages(dbx, pages, k + 1, after, limit, depth, max_depth)
                 ELSE after

\* 344-382: an exception of the listing gives []
list_dropbox_folders(dbx, path, limit, depth, max_depth) ==
    IF path \in dbx.failing THEN <<>>
    ELSE ListPages(dbx, Pages(Listing(dbx, path), dbx.page_size), 1, <<>>,
                   limit, depth, max_depth)

InitFolders ==
    /\ InitHandler
    /\ input \in [dbx : [tree : Forests(MaxFolders), files : BOOLEAN,
                         page_size : PageSizes, failing : {{}, {1}}],
                  limit : 0..MaxLimit,
                  depth : 0..MaxDepthArg,
                  max_depth : 0..MaxDepthArg]
    /\ output = None

CallFolders ==
    /\ output = None
    /\ output' = Some(list_dropbox_folders(input.dbx, 0, input.limit, input.depth,
                                           input.max_depth))
    /\ UNCHANGED <<handlerVars, input>>

SpecFolders ==
    InitFolders /\ [][CallFolders]_vars

(***************************************************************************)
(* Properties of list_dropbox_folders.                                     *)
(***************************************************************************)
\* at most limit entries, each entry followed at once by those of its subtree
LimitedPreOrder ==
    /\ Len(Result) <= input.limit
    /\ \A i, j \in 1..Len(Result) :
           i < j =>
               (Below(input.dbx.tree, Result[i].name, Result[j].name)
                    <=> \A k \in (i + 1)..j :
                            Below(input.dbx.tree, Result[i].name, Result[k].name))
    /\ \A i, j \in 1..Len(Result) :
           Below(input.dbx.tree, Result[i].name, Result[j].name)
               => i < j /\ Result[j].depth > Result[i].depth

====
